---- MODULE Spec2Model ----
(***************************************************************************)
(* Risk analysis routes of the FinSmart backend (server routes/riskRoutes): *)
(* GET /risk/concentration, GET /risk/var-analysis, POST /risk/stress-test. *)
(*                                                                         *)
(* The database (tables portfolios and holdings) is the state the handlers  *)
(* read; a handler runs against it and leaves the body it passed to         *)
(* res.json in `response`.                                                  *)
(*                                                                         *)
(* JavaScript numbers are modelled as exact rationals extended with         *)
(* Infinity, -Infinity and NaN (a record [n, d]: n/d in lowest terms with   *)
(* d > 0, and d = 0 for the three special values).  Binary rounding of      *)
(* IEEE doubles is not modelled.                                            *)
(***************************************************************************)
EXTENDS Integers, Sequences, FiniteSets, TLC

VARIABLES portfolios, holdings, request, response, dbReads, inflight

vars == <<portfolios, holdings, request, response, dbReads, inflight>>

----------------------------------------------------------------------------
(* JavaScript number arithmetic *)

RECURSIVE GCD(_, _)
GCD(a, b) == IF b = 0 THEN a ELSE GCD(b, a % b)

AbsInt(i) == IF i < 0 THEN -i ELSE i

SignInt(i) == IF i > 0 THEN 1 ELSE IF i < 0 THEN -1 ELSE 0

\* n/d in lowest terms with a positive denominator (d # 0)
Norm(n, d) ==
    LET g == GCD(AbsInt(n), AbsInt(d))
        s == IF d < 0 THEN -1 ELSE 1
    IN  [n |-> (s * n) \div g, d |-> (s * d) \div g]

R(n, d) == Norm(n, d)
N(i) == [n |-> i, d |-> 1]

\* Infinity is [n |-> 1, d |-> 0], -Infinity is [n |-> -1, d |-> 0]
NaN == [n |-> 0, d |-> 0]
Zero == N(0)

IsNaN(x) == x.d = 0 /\ x.n = 0
IsFinite(x) == x.d > 0

Neg(x) == [n |-> -x.n, d |-> x.d]

\* Math.abs
Abs(x) == [n |-> AbsInt(x.n), d |-> x.d]

\* x + y
Add(x, y) ==
    IF IsNaN(x) \/ IsNaN(y) THEN NaN
    ELSE IF ~IsFinite(x) /\ ~IsFinite(y) THEN (IF x.n = y.n THEN x ELSE NaN)
    ELSE IF ~IsFinite(x) THEN x
    ELSE IF ~IsFinite(y) THEN y
    ELSE Norm(x.n * y.d + y.n * x.d, x.d * y.d)

\* x - y
Sub(x, y) == Add(x, Neg(y))

\* x * y
Mul(x, y) ==
    IF IsNaN(x) \/ IsNaN(y) THEN NaN
    ELSE IF ~IsFinite(x) \/ ~IsFinite(y)
         THEN (IF x.n = 0 \/ y.n = 0 THEN NaN
               ELSE [n |-> SignInt(x.n) * SignInt(y.n), d |-> 0])
    ELSE Norm(x.n * y.n, x.d * y.d)

\* x / y
Div(x, y) ==
    IF IsNaN(x) \/ IsNaN(y) THEN NaN
    ELSE IF ~IsFinite(x) /\ ~IsFinite(y) THEN NaN
    ELSE IF ~IsFinite(x) THEN [n |-> x.n * (IF y.n < 0 THEN -1 ELSE 1), d |-> 0]
    ELSE IF ~IsFinite(y) THEN Zero
    ELSE IF y.n = 0 THEN (IF x.n = 0 THEN NaN ELSE [n |-> SignInt(x.n), d |-> 0])
    ELSE Norm(x.n * y.d, x.d * y.n)

\* x > y (false whenever an operand is NaN)
Gt(x, y) ==
    IF IsNaN(x) \/ IsNaN(y) THEN FALSE
    ELSE IF x = y THEN FALSE
    ELSE IF ~IsFinite(x) THEN x.n > 0
    ELSE IF ~IsFinite(y) THEN y.n < 0
    ELSE x.n * y.d > y.n * x.d

\* x <= y as the negation the claims use (both operands ordinary numbers)
Le(x, y) == ~IsNaN(x) /\ ~IsNaN(y) /\ ~Gt(x, y)

\* truthiness of a number: 0 and NaN are falsy
Truthy(x) == ~IsNaN(x) /\ x.n # 0

\* an optional value is a sequence of length 0 (undefined) or 1
Undefined == <<>>
Some(x) == <<x>>
IsDefined(o) == Len(o) = 1

\* (o || dflt) for an optional number o
OrElse(o, dflt) == IF IsDefined(o) /\ Truthy(o[1]) THEN o[1] ELSE dflt

----------------------------------------------------------------------------
(* A JavaScript object used as a map: entries in insertion order *)

MapHas(m, k) == \E i \in 1..Len(m) : m[i].key = k

\* m[k]: undefined when the key is absent
MapGet(m, k) ==
    IF MapHas(m, k)
    THEN Some(m[CHOOSE i \in 1..Len(m) : m[i].key = k].val)
    ELSE Undefined

\* m[k] = v: an existing key keeps its position, a new key goes last
MapPut(m, k, v) ==
    IF MapHas(m, k)
    THEN [i \in 1..Len(m) |-> IF m[i].key = k THEN [key |-> k, val |-> v] ELSE m[i]]
    ELSE Append(m, [key |-> k, val |-> v])

----------------------------------------------------------------------------
(* The database *)

\* supabase.from('holdings').select('*').eq('portfolio_id', id)
HoldingsOf(id) == SelectSeq(holdings, LAMBDA h : h.portfolio_id = id)

\* supabase.from('portfolios').select('*').eq('id', id)
PortfoliosById(id) == SelectSeq(portfolios, LAMBDA p : p.id = id)

----------------------------------------------------------------------------
(* GET /risk/concentration *)

\* const weight = holding.weight_percent / 100
Weight(holding) == Div(N(holding.weight_percent), N(100))

\* map[key] = (map[key] || 0) + weight
AccumulateSkipsZero(m, k, weight) ==
    IF weight = Zero THEN m
    ELSE MapPut(m, k, Add(OrElse(MapGet(m, k), Zero), weight))
Accumulate(m, k, weight) == MapPut(m, k, Add(OrElse(MapGet(m, k), Zero), weight))

\* holdings.forEach: one of the three concentration maps, keyed by `field`
RECURSIVE GroupBy(_, _, _)
GroupBy(hs, field, acc) ==
    IF hs = <<>> THEN acc
    ELSE GroupBy(Tail(hs), field, Accumulate(acc, Head(hs)[field], Weight(Head(hs))))

\* const { threshold = 0.3 } = req.query
DefaultThreshold == R(3, 10)
ThresholdOf(query) ==
    IF IsDefined(query.threshold) THEN query.threshold[1] ELSE DefaultThreshold

GeographicThreshold == R(3, 4)

SectorSeverityLoose(c) ==
    IF ~Le(c, R(1, 2)) \/ c = R(1, 2) THEN "high"
    ELSE IF Gt(c, R(2, 5)) THEN "medium" ELSE "low"
SectorSeverity(c) ==
    IF Gt(c, R(1, 2)) THEN "high" ELSE IF Gt(c, R(2, 5)) THEN "medium" ELSE "low"

GeographicSeverityLoose(c) ==
    IF Gt(c, R(9, 10)) THEN "high"
    ELSE IF Gt(c, R(17, 20)) \/ c = R(17, 20) THEN "medium" ELSE "low"
GeographicSeverity(c) ==
    IF Gt(c, R(9, 10)) THEN "high" ELSE IF Gt(c, R(17, 20)) THEN "medium" ELSE "low"

Risk(type, e, threshold, severity) ==
    [type |-> type, name |-> e.key, concentration |-> e.val,
     threshold |-> threshold, severity |-> severity]

\* Object.entries(sectorConcentration).forEach: if (concentration > threshold) risks.push
SectorRisksNotStrict(m, threshold) ==
    LET over == SelectSeq(m, LAMBDA e : Gt(e.val, threshold) \/ e.val = threshold)
    IN  [i \in 1..Len(over) |->
            Risk("sector", over[i], threshold, SectorSeverity(over[i].val))]
SectorRisks(m, threshold) ==
    LET over == SelectSeq(m, LAMBDA e : Gt(e.val, threshold))
    IN  [i \in 1..Len(over) |->
            Risk("sector", over[i], threshold, SectorSeverity(over[i].val))]

\* Object.entries(regionConcentration).forEach: if (concentration > 0.75) risks.push
GeographicRisksSharedThreshold(m, threshold) ==
    LET over == SelectSeq(m, LAMBDA e : Gt(e.val, threshold))
    IN  [i \in 1..Len(over) |->
            Risk("geographic", over[i], threshold, GeographicSeverity(over[i].val))]
GeographicRisks(m, threshold) ==
    LET over == SelectSeq(m, LAMBDA e : Gt(e.val, GeographicThreshold))
    IN  [i \in 1..Len(over) |->
            Risk("geographic", over[i], GeographicThreshold,
                 GeographicSeverity(over[i].val))]

\* no loop of the handler reads assetClassConcentration: it pushes no risk
AssetClassRisksFlagged(m, threshold) ==
    LET over == SelectSeq(m, LAMBDA e : Gt(e.val, threshold))
    IN  [i \in 1..Len(over) |->
            Risk("asset_class", over[i], threshold, SectorSeverity(over[i].val))]
AssetClassRisks(m, threshold) == <<>>

RiskScoreCountsFindings(risks) == Len(risks)

\* risks.reduce((sum, risk) => sum + (high ? 3 : medium ? 2 : 1), 0)
RECURSIVE RiskScore(_)
RiskScore(risks) ==
    IF risks = <<>> THEN 0
    ELSE (IF Head(risks).severity = "high" THEN 3
          ELSE IF Head(risks).severity = "medium" THEN 2 ELSE 1)
         + RiskScore(Tail(risks))

AnalyzeConcentrationFlagsEmpty(portfolio, hs, threshold) ==
    LET sectorConcentration == GroupBy(hs, "sector", <<>>)
        regionConcentration == GroupBy(hs, "region", <<>>)
        assetClassConcentration == GroupBy(hs, "asset_class", <<>>)
        risks == SectorRisks(sectorConcentration, threshold)
                 \o GeographicRisks(regionConcentration, threshold)
                 \o AssetClassRisks(assetClassConcentration, threshold)
                 \o (IF hs = <<>>
                     THEN <<Risk("sector", [key |-> "none", val |-> Zero],
                                 threshold, "low")>>
                     ELSE <<>>)
    IN  [portfolio_id |-> portfolio.id,
         sector_concentration |-> sectorConcentration,
         region_concentration |-> regionConcentration,
         asset_class_concentration |-> assetClassConcentration,
         concentration_risks |-> risks,
         risk_score |-> RiskScore(risks)]
\* the body of the loop over portfoliosToAnalyze, after the holdings fetch
AnalyzeConcentration(portfolio, hs, threshold) ==
    LET sectorConcentration == GroupBy(hs, "sector", <<>>)
        regionConcentration == GroupBy(hs, "region", <<>>)
        assetClassConcentration == GroupBy(hs, "asset_class", <<>>)
        risks == SectorRisks(sectorConcentration, threshold)
                 \o GeographicRisks(regionConcentration, threshold)
                 \o AssetClassRisks(assetClassConcentration, threshold)
    IN  [portfolio_id |-> portfolio.id,
         sector_concentration |-> sectorConcentration,
         region_concentration |-> regionConcentration,
         asset_class_concentration |-> assetClassConcentration,
         concentration_risks |-> risks,
         risk_score |-> RiskScore(risks)]

\* for (const portfolio of portfoliosToAnalyze): a failed holdings fetch skips
\* the portfolio (continue)
RECURSIVE ConcentrationLoop(_, _, _)
ConcentrationLoop(ps, threshold, holdingsError) ==
    IF ps = <<>> THEN <<>>
    ELSE IF Head(ps).id \in holdingsError
         THEN ConcentrationLoop(Tail(ps), threshold, holdingsError)
         ELSE <<AnalyzeConcentration(Head(ps), HoldingsOf(Head(ps).id), threshold)>>
              \o ConcentrationLoop(Tail(ps), threshold, holdingsError)

ConcentrationHandlerPartialFailure(query, portfoliosError, holdingsError) ==
    LET single == IF IsDefined(query.portfolio_id)
                  THEN PortfoliosById(query.portfolio_id[1]) ELSE <<>>
    IN  IF IsDefined(query.portfolio_id) /\ (portfoliosError \/ Len(single) # 1)
        THEN [body |-> [status |-> 404, success |-> FALSE,
                        message |-> "Portfolio not found"],
              reads |-> 1]
        ELSE IF ~IsDefined(query.portfolio_id) /\ portfoliosError
        THEN [body |-> [status |-> 500, success |-> FALSE,
                        message |-> "Failed to perform concentration analysis"],
              reads |-> 1]
        ELSE LET portfoliosToAnalyze ==
                     IF IsDefined(query.portfolio_id) THEN single ELSE portfolios
                 data == ConcentrationLoop(portfoliosToAnalyze, ThresholdOf(query),
                                           holdingsError)
             IN  [body |-> IF holdingsError = {}
                           THEN [status |-> 200, success |-> TRUE, data |-> data]
                           ELSE [status |-> 500, success |-> FALSE,
                                 message |-> "Failed to perform concentration analysis",
                                 data |-> data],
                  reads |-> 1 + Len(portfoliosToAnalyze)]
\* the handler: its response body and the number of queries it issued
ConcentrationHandler(query, portfoliosError, holdingsError) ==
    LET single == IF IsDefined(query.portfolio_id)
                  THEN PortfoliosById(query.portfolio_id[1]) ELSE <<>>
    IN  IF IsDefined(query.portfolio_id) /\ (portfoliosError \/ Len(single) # 1)
        THEN [body |-> [status |-> 404, success |-> FALSE,
                        message |-> "Portfolio not found"],
              reads |-> 1]
        ELSE IF ~IsDefined(query.portfolio_id) /\ portfoliosError
        THEN [body |-> [status |-> 500, success |-> FALSE,
                        message |-> "Failed to perform concentration analysis"],
              reads |-> 1]
        ELSE LET portfoliosToAnalyze ==
                     IF IsDefined(query.portfolio_id) THEN single ELSE portfolios
             IN  [body |-> [status |-> 200, success |-> TRUE,
                            data |-> ConcentrationLoop(portfoliosToAnalyze,
                                                       ThresholdOf(query),
                                                       holdingsError)],
                  reads |-> 1 + Len(portfoliosToAnalyze)]

----------------------------------------------------------------------------
(* GET /risk/var-analysis *)

\* coef * Math.sqrt(radicand), kept symbolic
Surd(coef, radicand) == [coef |-> coef, radicand |-> radicand]

\* const var1d = Math.abs(portfolio.var_1d)
Var1dSigned(portfolio) == N(portfolio.var_1d)
Var1d(portfolio) == Abs(N(portfolio.var_1d))

\* const varPercentage = (var1d / portfolioValue) * 100
VarPercentageAsFraction(portfolio) ==
    Div(Var1d(portfolio), N(portfolio.total_value))
VarPercentage(portfolio) ==
    Mul(Div(Var1d(portfolio), N(portfolio.total_value)), N(100))

\* let riskLevel = 'low'; if (> 5) 'high'; else if (> 2) 'medium'
RiskLevelInclusive(varPercentage) ==
    IF Gt(varPercentage, N(5)) \/ varPercentage = N(5) THEN "high"
    ELSE IF Gt(varPercentage, N(2)) THEN "medium" ELSE "low"
RiskLevel(varPercentage) ==
    IF Gt(varPercentage, N(5)) THEN "high"
    ELSE IF Gt(varPercentage, N(2)) THEN "medium" ELSE "low"

\* const { confidence_level = 0.95 } = req.query
ConfidenceLevelOf(query) ==
    IF IsDefined(query.confidence_level) THEN query.confidence_level[1]
    ELSE R(19, 20)

AssessVarLinearHorizon(portfolio, confidenceLevel) ==
    LET var1d == Var1d(portfolio)
        varPercentage == VarPercentage(portfolio)
    IN  [portfolio_id |-> portfolio.id,
         total_value |-> N(portfolio.total_value),
         var_1d |-> Neg(var1d),
         var_5d |-> Surd(Neg(Mul(var1d, N(5))), 1),
         var_1m |-> Surd(Neg(Mul(var1d, N(22))), 1),
         var_percentage |-> varPercentage,
         risk_level |-> RiskLevel(varPercentage),
         confidence_level |-> confidenceLevel,
         margin_utilization |-> portfolio.margin_utilization,
         risk_score |-> Mul(varPercentage,
                            Add(portfolio.margin_utilization, R(1, 2)))]
AssessVarScoreWithoutOffset(portfolio, confidenceLevel) ==
    LET var1d == Var1d(portfolio)
        varPercentage == VarPercentage(portfolio)
    IN  [portfolio_id |-> portfolio.id,
         total_value |-> N(portfolio.total_value),
         var_1d |-> Neg(var1d),
         var_5d |-> Surd(Neg(var1d), 5),
         var_1m |-> Surd(Neg(var1d), 22),
         var_percentage |-> varPercentage,
         risk_level |-> RiskLevel(varPercentage),
         confidence_level |-> confidenceLevel,
         margin_utilization |-> portfolio.margin_utilization,
         risk_score |-> Mul(varPercentage, portfolio.margin_utilization)]
AssessVarScoredByConfidence(portfolio, confidenceLevel) ==
    LET var1d == Var1d(portfolio)
        varPercentage == VarPercentage(portfolio)
    IN  [portfolio_id |-> portfolio.id,
         total_value |-> N(portfolio.total_value),
         var_1d |-> Neg(var1d),
         var_5d |-> Surd(Neg(var1d), 5),
         var_1m |-> Surd(Neg(var1d), 22),
         var_percentage |-> varPercentage,
         risk_level |-> RiskLevel(varPercentage),
         confidence_level |-> confidenceLevel,
         margin_utilization |-> portfolio.margin_utilization,
         risk_score |-> Mul(Mul(varPercentage,
                                Add(portfolio.margin_utilization, R(1, 2))),
                            confidenceLevel)]
\* the object the map callback returns for one portfolio
AssessVar(portfolio, confidenceLevel) ==
    LET var1d == Var1d(portfolio)
        varPercentage == VarPercentage(portfolio)
    IN  [portfolio_id |-> portfolio.id,
         total_value |-> N(portfolio.total_value),
         var_1d |-> Neg(var1d),
         var_5d |-> Surd(Neg(var1d), 5),
         var_1m |-> Surd(Neg(var1d), 22),
         var_percentage |-> varPercentage,
         risk_level |-> RiskLevel(varPercentage),
         confidence_level |-> confidenceLevel,
         margin_utilization |-> portfolio.margin_utilization,
         risk_score |-> Mul(varPercentage,
                            Add(portfolio.margin_utilization, R(1, 2)))]

\* the comparator (a, b) => b.risk_score - a.risk_score; a NaN result counts
\* as 0
Compare(a, b) ==
    LET v == Sub(b.risk_score, a.risk_score)
    IN  IF IsNaN(v) THEN 0 ELSE SignInt(v.n)

\* the comparator is a consistent comparator for these elements: "compares
\* equal" is transitive (the ordering of distinct scores always is)
ConsistentComparator(as) ==
    \A i, j, k \in 1..Len(as) :
        (Compare(as[i], as[j]) = 0 /\ Compare(as[j], as[k]) = 0)
        => Compare(as[i], as[k]) = 0

\* stable insertion of x into a sorted sequence
RECURSIVE InsertSorted(_, _)
InsertSorted(sorted, x) ==
    IF sorted = <<>> THEN <<x>>
    ELSE IF Compare(sorted[Len(sorted)], x) > 0
         THEN Append(InsertSorted(SubSeq(sorted, 1, Len(sorted) - 1), x),
                     sorted[Len(sorted)])
         ELSE Append(sorted, x)

RECURSIVE StableSort(_)
StableSort(as) ==
    IF as = <<>> THEN <<>>
    ELSE InsertSorted(StableSort(SubSeq(as, 1, Len(as) - 1)), as[Len(as)])

Reorderings(as) ==
    { [i \in 1..Len(as) |-> as[f[i]]] : f \in Permutations(1..Len(as)) }

\* varAnalysis.sort(comparator): the stable sort when the comparator is
\* consistent; with an inconsistent comparator the order is
\* implementation-defined
SortOutcomes(as) ==
    IF ConsistentComparator(as) THEN {StableSort(as)} ELSE Reorderings(as)

\* the handler: the bodies it may respond with and the queries it issued
VarAnalysisHandler(query, portfoliosError) ==
    IF portfoliosError
    THEN [bodies |-> {[status |-> 500, success |-> FALSE,
                       message |-> "Failed to fetch portfolios"]},
          reads |-> 1]
    ELSE LET rows == IF IsDefined(query.portfolio_id)
                     THEN PortfoliosById(query.portfolio_id[1]) ELSE portfolios
             varAnalysis == [i \in 1..Len(rows) |->
                                AssessVar(rows[i], ConfidenceLevelOf(query))]
         IN  [bodies |-> { [status |-> 200, success |-> TRUE, data |-> d] :
                              d \in SortOutcomes(varAnalysis) },
              reads |-> 1]

----------------------------------------------------------------------------
(* POST /risk/stress-test *)

\* supabase.from('portfolios').select('*').in('id', ids)
PortfoliosIn(ids) ==
    SelectSeq(portfolios, LAMBDA p : \E i \in 1..Len(ids) : ids[i] = p.id)

\* scenario.sector_shocks && scenario.sector_shocks[holding.sector]:
\* undefined when there is no map or no entry for the sector
SectorShock(scenario, sector) ==
    IF IsDefined(scenario.sector_shocks)
       /\ sector \in DOMAIN scenario.sector_shocks[1]
    THEN Some(scenario.sector_shocks[1][sector])
    ELSE Undefined

\* let holdingShock = scenario.market_shock || -0.1;
\* if (scenario.sector_shocks && scenario.sector_shocks[holding.sector])
\*     holdingShock = scenario.sector_shocks[holding.sector]
HoldingShockUnshockedByDefault(scenario, holding) ==
    LET override == SectorShock(scenario, holding.sector)
        marketShock == OrElse(scenario.market_shock, Zero)
    IN  IF IsDefined(override) /\ Truthy(override[1]) THEN override[1]
        ELSE marketShock
HoldingShock(scenario, holding) ==
    LET override == SectorShock(scenario, holding.sector)
        marketShock == OrElse(scenario.market_shock, R(-1, 10))
    IN  IF IsDefined(override) /\ Truthy(override[1]) THEN override[1]
        ELSE marketShock

\* the entry pushed to holdingImpacts
HoldingImpact(scenario, holding) ==
    LET holdingShock == HoldingShock(scenario, holding)
        holdingImpact == Mul(N(holding.value), holdingShock)
    IN  [symbol |-> holding.symbol,
         current_value |-> N(holding.value),
         shock |-> holdingShock,
         impact |-> holdingImpact,
         stressed_value |-> Add(N(holding.value), holdingImpact)]

\* stressedValue += holdingImpact, over the holdings in order
RECURSIVE StressedValue(_, _), StressedValueCompounded(_, _)
StressedValueCompounded(stressedValue, impacts) ==
    IF impacts = <<>> THEN stressedValue
    ELSE StressedValueCompounded(
             Add(stressedValue, Mul(stressedValue, Head(impacts).shock)),
             Tail(impacts))
StressedValue(stressedValue, impacts) ==
    IF impacts = <<>> THEN stressedValue
    ELSE StressedValue(Add(stressedValue, Head(impacts).impact), Tail(impacts))

\* impactPercentage > 20 ? 'high' : impactPercentage > 10 ? 'medium' : 'low'
StressRiskLevelInclusive(impactPercentage) ==
    IF Gt(impactPercentage, N(20)) THEN "high"
    ELSE IF Gt(impactPercentage, N(10)) \/ impactPercentage = N(10)
         THEN "medium" ELSE "low"
StressRiskLevelByMagnitude(impactPercentage) ==
    IF Gt(Abs(impactPercentage), N(20)) THEN "high"
    ELSE IF Gt(Abs(impactPercentage), N(10)) THEN "medium" ELSE "low"
StressRiskLevel(impactPercentage) ==
    IF Gt(impactPercentage, N(20)) THEN "high"
    ELSE IF Gt(impactPercentage, N(10)) THEN "medium" ELSE "low"

\* the body of the loop over scenarios
RunScenarioPercentOfStressed(portfolio, hs, scenario) ==
    LET holdingImpacts == [i \in 1..Len(hs) |-> HoldingImpact(scenario, hs[i])]
        stressedValue == StressedValue(N(portfolio.total_value), holdingImpacts)
        totalImpact == Sub(N(portfolio.total_value), stressedValue)
        impactPercentage == Mul(Div(totalImpact, stressedValue), N(100))
    IN  [name |-> scenario.name,
         stressed_value |-> stressedValue,
         total_impact |-> totalImpact,
         impact_percentage |-> impactPercentage,
         holding_impacts |-> holdingImpacts,
         risk_level |-> StressRiskLevel(impactPercentage)]
RunScenario(portfolio, hs, scenario) ==
    LET holdingImpacts == [i \in 1..Len(hs) |-> HoldingImpact(scenario, hs[i])]
        stressedValue == StressedValue(N(portfolio.total_value), holdingImpacts)
        totalImpact == Sub(N(portfolio.total_value), stressedValue)
        impactPercentage ==
            Mul(Div(totalImpact, N(portfolio.total_value)), N(100))
    IN  [name |-> scenario.name,
         stressed_value |-> stressedValue,
         total_impact |-> totalImpact,
         impact_percentage |-> impactPercentage,
         holding_impacts |-> holdingImpacts,
         risk_level |-> StressRiskLevel(impactPercentage)]

StressPortfolioCarriedOver(portfolio, hs, scenarios) ==
    LET RECURSIVE Run(_, _)
        Run(i, total) ==
            IF i > Len(scenarios) THEN <<>>
            ELSE LET res == RunScenario([portfolio EXCEPT !.total_value = total],
                                        hs, scenarios[i])
                 IN  <<res>> \o Run(i + 1, res.stressed_value.n \div res.stressed_value.d)
    IN  [portfolio_id |-> portfolio.id,
         current_value |-> N(portfolio.total_value),
         scenarios |-> Run(1, portfolio.total_value)]
StressPortfolioReversed(portfolio, hs, scenarios) ==
    [portfolio_id |-> portfolio.id,
     current_value |-> N(portfolio.total_value),
     scenarios |-> [i \in 1..Len(scenarios) |->
                       RunScenario(portfolio, hs, scenarios[Len(scenarios) + 1 - i])]]
\* portfolioResults for one portfolio, after the holdings fetch
StressPortfolio(portfolio, hs, scenarios) ==
    [portfolio_id |-> portfolio.id,
     current_value |-> N(portfolio.total_value),
     scenarios |-> [i \in 1..Len(scenarios) |->
                       RunScenario(portfolio, hs, scenarios[i])]]

\* for (const portfolio of portfolios): a failed holdings fetch skips the
\* portfolio (continue)
RECURSIVE StressLoop(_, _, _)
StressLoopStopsAtFailure(ps, scenarios, holdingsError) ==
    IF ps = <<>> THEN <<>>
    ELSE IF Head(ps).id \in holdingsError
         THEN <<>>
         ELSE <<StressPortfolio(Head(ps), HoldingsOf(Head(ps).id), scenarios)>>
              \o StressLoop(Tail(ps), scenarios, holdingsError)
StressLoop(ps, scenarios, holdingsError) ==
    IF ps = <<>> THEN <<>>
    ELSE IF Head(ps).id \in holdingsError
         THEN StressLoop(Tail(ps), scenarios, holdingsError)
         ELSE <<StressPortfolio(Head(ps), HoldingsOf(Head(ps).id), scenarios)>>
              \o StressLoop(Tail(ps), scenarios, holdingsError)

\* if (!scenarios || scenarios.length === 0)
NoScenarios(body) == ~IsDefined(body.scenarios) \/ Len(body.scenarios[1]) = 0

\* the scenarios check is the first statement of the handler: no query has
\* been issued when it returns
QueriesBeforeScenarioCheckLate == 0 + 1
QueriesBeforeScenarioCheck == 0

\* the portfolios the query of the handler selects
StressSelection(body) ==
    IF IsDefined(body.portfolio_ids) /\ Len(body.portfolio_ids[1]) > 0
    THEN PortfoliosIn(body.portfolio_ids[1]) ELSE portfolios

\* the handler: its response body and the number of queries it issued
StressTestHandler(body, portfoliosError, holdingsError) ==
    IF NoScenarios(body)
    THEN [body |-> [status |-> 400, success |-> FALSE,
                    message |-> "At least one stress test scenario is required"],
          reads |-> QueriesBeforeScenarioCheck]
    ELSE IF portfoliosError
    THEN [body |-> [status |-> 500, success |-> FALSE,
                    message |-> "Failed to perform stress test"],
          reads |-> 1]
    ELSE [body |-> [status |-> 200, success |-> TRUE,
                    message |-> "Stress test completed successfully",
                    data |-> StressLoop(StressSelection(body),
                                        body.scenarios[1], holdingsError)],
          reads |-> 1 + Len(StressSelection(body))]

----------------------------------------------------------------------------
(* Requests and responses *)

NoRequest == [kind |-> "none"]
NoResponse == [status |-> 0]

\* no invocation of a handler is suspended at an await
NoInvocations == <<>>

\* res.json(...) has been called and the handler has returned: the next
\* request is served by a fresh invocation that shares nothing with this one
Finish ==
    /\ response # NoResponse
    /\ request' = NoRequest
    /\ response' = NoResponse
    /\ dbReads' = 0
    /\ UNCHANGED <<portfolios, holdings, inflight>>

----------------------------------------------------------------------------
(* GET /risk/concentration: data and requests of the bounded model *)

MaxHoldings == 2

PortfolioIds == {1, 2}

\* instruments: the symbol fixes sector, region and asset class
Securities ==
    { [symbol |-> "AAPL", sector |-> "Technology", region |-> "US",
       asset_class |-> "Equity"],
      [symbol |-> "SAP", sector |-> "Technology", region |-> "Europe",
       asset_class |-> "Equity"],
      [symbol |-> "BUND", sector |-> "Government", region |-> "Europe",
       asset_class |-> "Fixed Income"] }

WeightPercents == {0, 30, 40, 45, 50, 85}

HoldingRow(id, sec, w, v) ==
    [portfolio_id |-> id, symbol |-> sec.symbol, sector |-> sec.sector,
     region |-> sec.region, asset_class |-> sec.asset_class,
     weight_percent |-> w, value |-> v]

PortfolioRow(id, total, var1d, margin) ==
    [id |-> id, total_value |-> total, var_1d |-> var1d,
     margin_utilization |-> margin]

\* the rows of portfolio 1 vary; portfolio 2 is a seeded bond portfolio
ConcentrationHoldingRows ==
    { HoldingRow(1, sec, w, w * 10) : sec \in Securities, w \in WeightPercents }

SeededHoldings ==
    << [portfolio_id |-> 2, symbol |-> "TLT", sector |-> "Government",
        region |-> "US", asset_class |-> "Fixed Income",
        weight_percent |-> 100, value |-> 1000] >>

SeqsUpTo(S, n) == UNION { [1..k -> S] : k \in 0..n }

\* req.query: the handler reads portfolio_id and threshold and ignores the rest
ConcentrationQueries ==
    { [portfolio_id |-> id, threshold |-> t,
       geographic_threshold |-> x[1], asset_class_threshold |-> x[2]] :
        id \in {Undefined, Some(1), Some(3)},   \* 3: no such portfolio
        t \in {Undefined, Some(R(2, 5)), Some(R(17, 20)), Some(R(-1, 10))},
        x \in {<<Undefined, Undefined>>, <<Some(R(1, 2)), Some(R(2, 5))>>} }

\* the portfolios whose holdings a request fetches when its portfolio query
\* succeeds
Fetched(query) ==
    IF IsDefined(query.portfolio_id)
    THEN { p \in PortfolioIds : p = query.portfolio_id[1] }
    ELSE PortfolioIds

InitConcentration ==
    /\ portfolios = <<PortfolioRow(1, 1000, -15, R(1, 2)),
                      PortfolioRow(2, 1000, -15, R(1, 2))>>
    /\ holdings \in { hs \o SeededHoldings :
                        hs \in SeqsUpTo(ConcentrationHoldingRows, MaxHoldings) }
    /\ request = NoRequest
    /\ response = NoResponse
    /\ dbReads = 0
    /\ inflight = NoInvocations

\* one request to GET /risk/concentration; portfoliosError and holdingsError
\* say which of its queries the database fails
Concentration ==
    /\ response = NoResponse
    /\ \E query \in ConcentrationQueries, portfoliosError \in BOOLEAN :
       \E holdingsError \in
              SUBSET (IF portfoliosError THEN {} ELSE Fetched(query)) :
          LET r == ConcentrationHandler(query, portfoliosError, holdingsError)
          IN  /\ request' = [kind |-> "concentration", query |-> query,
                             portfoliosError |-> portfoliosError,
                             holdingsError |-> holdingsError]
              /\ response' = r.body
              /\ dbReads' = r.reads
    /\ UNCHANGED <<portfolios, holdings, inflight>>

NextConcentration == Concentration \/ Finish

SpecConcentration == InitConcentration /\ [][NextConcentration]_vars

----------------------------------------------------------------------------
(* Properties of GET /risk/concentration *)

\* what the properties measure against: the holdings' weight_percent summed in
\* whole percents, and fractions compared by cross-multiplication
RECURSIVE SumPercent(_, _, _)
SumPercent(hs, field, x) ==
    IF hs = <<>> THEN 0
    ELSE (IF Head(hs)[field] = x THEN Head(hs).weight_percent ELSE 0)
         + SumPercent(Tail(hs), field, x)

\* percent/100 > t for a finite fraction t
PercentExceeds(percent, t) == percent * t.d > 100 * t.n

ValuesOf(field) == { holdings[i][field] : i \in 1..Len(holdings) }

ConcentrationOK == request.kind = "concentration" /\ response.status = 200

Flagged(e, type, x) ==
    \E i \in 1..Len(e.concentration_risks) :
        /\ e.concentration_risks[i].type = type
        /\ e.concentration_risks[i].name = x

SectorThresholdConfigured ==
    IF request.query.threshold = <<>> THEN [n |-> 3, d |-> 10]
    ELSE request.query.threshold[1]

GeographicThresholdConfigured ==
    IF request.query.geographic_threshold = <<>> THEN [n |-> 3, d |-> 4]
    ELSE request.query.geographic_threshold[1]

SeverityAt(c, hi, mid) ==
    IF c.n * hi.d > hi.n * c.d THEN "high"
    ELSE IF c.n * mid.d > mid.n * c.d THEN "medium" ELSE "low"

\* C2: every sector finding is 'high' when its concentration is > 0.50,
\* 'medium' when it is > 0.40 and <= 0.50, 'low' otherwise, whatever threshold
\* the request configured.
C2_SectorSeverityBreakpoints ==
    ConcentrationOK =>
        \A k \in 1..Len(response.data) :
            \A i \in 1..Len(response.data[k].concentration_risks) :
                LET f == response.data[k].concentration_risks[i]
                IN  f.type = "sector" =>
                        f.severity = SeverityAt(f.concentration,
                                                [n |-> 1, d |-> 2],
                                                [n |-> 2, d |-> 5])

\* under a configured threshold of 0.40, a sector finding at exactly 0.50 is
\* 'medium'
C2_Witness ==
    /\ ConcentrationOK
    /\ request.query.threshold = <<[n |-> 2, d |-> 5]>>
    /\ \E k \in 1..Len(response.data) :
           \E i \in 1..Len(response.data[k].concentration_risks) :
               LET f == response.data[k].concentration_risks[i]
               IN  /\ f.type = "sector"
                   /\ f.concentration = [n |-> 1, d |-> 2]
                   /\ f.severity = "medium"

\* C3: every geographic finding is 'high' when its concentration is > 0.90,
\* 'medium' when it is > 0.85 and <= 0.90, 'low' otherwise.
C3_GeographicSeverityBreakpoints ==
    ConcentrationOK =>
        \A k \in 1..Len(response.data) :
            \A i \in 1..Len(response.data[k].concentration_risks) :
                LET f == response.data[k].concentration_risks[i]
                IN  f.type = "geographic" =>
                        f.severity = SeverityAt(f.concentration,
                                                [n |-> 9, d |-> 10],
                                                [n |-> 17, d |-> 20])

\* one response holds a geographic finding at exactly 0.90 ('medium') or at
\* exactly 0.85 ('low'), and one that is 'high'
C3_Witness ==
    /\ ConcentrationOK
    /\ \E k, l \in 1..Len(response.data) :
           /\ \E i \in 1..Len(response.data[k].concentration_risks) :
                  LET f == response.data[k].concentration_risks[i]
                  IN  /\ f.type = "geographic"
                      /\ \/ f.concentration = [n |-> 9, d |-> 10]
                            /\ f.severity = "medium"
                         \/ f.concentration = [n |-> 17, d |-> 20]
                            /\ f.severity = "low"
           /\ \E i \in 1..Len(response.data[l].concentration_risks) :
                  LET f == response.data[l].concentration_risks[i]
                  IN  f.type = "geographic" /\ f.severity = "high"

GeographicFindingsAgainst(t) ==
    ConcentrationOK =>
        \A k \in 1..Len(response.data) :
            LET e == response.data[k]
                hs == HoldingsOf(e.portfolio_id)
            IN  /\ \A x \in ValuesOf("region") :
                       Flagged(e, "geographic", x)
                       <=> PercentExceeds(SumPercent(hs, "region", x), t)
                /\ \A i \in 1..Len(e.concentration_risks) :
                       e.concentration_risks[i].type = "geographic"
                       => e.concentration_risks[i].threshold = t

\* C4 as claimed: a 'geographic' finding is emitted for region R exactly when
\* R's summed fraction strictly exceeds the geographic threshold the request
\* configures (0.75 when omitted), and the finding reports that threshold.
C4_GeographicThresholdConfigurable ==
    GeographicFindingsAgainst(GeographicThresholdConfigured)

\* C4 amended: a 'geographic' finding is emitted for region R exactly when R's
\* summed fraction strictly exceeds 0.75, whatever thresholds the request
\* configures, and the finding reports 0.75 as its threshold.
C4_GeographicThresholdFixed ==
    GeographicFindingsAgainst([n |-> 3, d |-> 4])

\* the request configures a geographic threshold of 0.50 and a sector threshold;
\* a region at exactly 0.75 is not flagged, and another portfolio's region is
\* flagged with threshold 0.75
C4_Witness ==
    /\ ConcentrationOK
    /\ request.query.geographic_threshold = <<[n |-> 1, d |-> 2]>>
    /\ request.query.threshold # <<>>
    /\ \E k, l \in 1..Len(response.data) :
           /\ \E x \in ValuesOf("region") :
                  /\ SumPercent(HoldingsOf(response.data[k].portfolio_id),
                                "region", x) = 75
                  /\ ~Flagged(response.data[k], "geographic", x)
           /\ \E i \in 1..Len(response.data[l].concentration_risks) :
                  LET f == response.data[l].concentration_risks[i]
                  IN  f.type = "geographic" /\ f.threshold = [n |-> 3, d |-> 4]

\* the asset-class map of an entry holds exactly the asset classes of the
\* portfolio's holdings, each with its summed weight_percent/100
AssetClassMapExact(e) ==
    LET hs == HoldingsOf(e.portfolio_id)
        m == e.asset_class_concentration
    IN  /\ { m[i].key : i \in 1..Len(m) }
               = { hs[i].asset_class : i \in 1..Len(hs) }
        /\ \A i \in 1..Len(m) :
               /\ m[i].val.n * 100 = SumPercent(hs, "asset_class", m[i].key) * m[i].val.d
               /\ \A j \in 1..Len(m) : m[j].key = m[i].key => j = i

\* C5 as claimed: when the request configures an asset-class threshold, each
\* asset class whose summed fraction exceeds it has a finding of kind
\* 'asset_class'.
C5_AssetClassFindingsEmitted ==
    (ConcentrationOK /\ request.query.asset_class_threshold # <<>>) =>
        \A k \in 1..Len(response.data) :
            LET e == response.data[k]
            IN  \A x \in ValuesOf("asset_class") :
                    PercentExceeds(SumPercent(HoldingsOf(e.portfolio_id),
                                              "asset_class", x),
                                   request.query.asset_class_threshold[1])
                    => Flagged(e, "asset_class", x)

\* C5 amended: the analysis aggregates holdings by asset class and returns the
\* exact asset-class map with each entry, but every finding is of kind 'sector'
\* or 'geographic': no 'asset_class' finding is emitted, however concentrated
\* an asset class is.
C5_AssetClassAggregatedNotFlagged ==
    ConcentrationOK =>
        \A k \in 1..Len(response.data) :
            LET e == response.data[k]
            IN  /\ AssetClassMapExact(e)
                /\ \A i \in 1..Len(e.concentration_risks) :
                       e.concentration_risks[i].type \in {"sector", "geographic"}

\* an asset-class threshold of 0.40 is configured, a portfolio with two holdings
\* has one asset class at 0.85 or more, and its entry carries the map
C5_Witness ==
    /\ ConcentrationOK
    /\ request.query.asset_class_threshold = <<[n |-> 2, d |-> 5]>>
    /\ \E k \in 1..Len(response.data) :
           LET e == response.data[k]
               hs == HoldingsOf(e.portfolio_id)
           IN  /\ Len(hs) = 2
               /\ Len(e.asset_class_concentration) = 2
               /\ \E x \in ValuesOf("asset_class") :
                      SumPercent(hs, "asset_class", x) >= 85

\* the portfolios a concentration request analyses: those its portfolio query
\* selects and whose holdings query succeeds
Analysed ==
    IF request.portfoliosError THEN {}
    ELSE { id \in Fetched(request.query) : id \notin request.holdingsError }

\* C24: a portfolio without holdings is analysed like any other: the response
\* is a success and its entry has no findings, empty sector, region and
\* asset-class maps and a risk score of 0.
C24_NoHoldingsNoFindings ==
    request.kind = "concentration" =>
        \A id \in Analysed :
            HoldingsOf(id) = <<>> =>
                /\ response.status = 200
                /\ response.success
                /\ \E k \in 1..Len(response.data) :
                       /\ response.data[k].portfolio_id = id
                       /\ response.data[k].concentration_risks = <<>>
                       /\ response.data[k].sector_concentration = <<>>
                       /\ response.data[k].region_concentration = <<>>
                       /\ response.data[k].asset_class_concentration = <<>>
                       /\ response.data[k].risk_score = 0

\* a portfolio without holdings is analysed next to one with a finding
C24_Witness ==
    /\ ConcentrationOK
    /\ Len(response.data) = 2
    /\ HoldingsOf(response.data[1].portfolio_id) = <<>>
    /\ response.data[1].concentration_risks = <<>>
    /\ response.data[2].concentration_risks # <<>>

\* the number of findings of one severity
FindingsOf(risks, severity) ==
    Cardinality({i \in 1..Len(risks) : risks[i].severity = severity})

\* C30: a portfolio's risk_score is 3 times its high findings plus 2 times its
\* medium findings plus its low findings, and is 0 exactly when it has no
\* findings.
C30_RiskScoreWeightsSeverities ==
    ConcentrationOK =>
        \A k \in 1..Len(response.data) :
            LET e == response.data[k]
            IN  /\ e.risk_score = 3 * FindingsOf(e.concentration_risks, "high")
                                  + 2 * FindingsOf(e.concentration_risks, "medium")
                                  + FindingsOf(e.concentration_risks, "low")
                /\ e.risk_score = 0 <=> e.concentration_risks = <<>>

\* a portfolio with a high, a medium and a low finding, scored 6
C30_Witness ==
    /\ ConcentrationOK
    /\ \E k \in 1..Len(response.data) :
           /\ FindingsOf(response.data[k].concentration_risks, "high") = 1
           /\ FindingsOf(response.data[k].concentration_risks, "medium") = 1
           /\ FindingsOf(response.data[k].concentration_risks, "low") = 1
           /\ response.data[k].risk_score = 6

\* the groups of a portfolio that consist of zero-weight holdings only
ZeroGroups(hs, field) ==
    { x \in { hs[i][field] : i \in 1..Len(hs) } : SumPercent(hs, field, x) = 0 }

\* a zero-weight holding creates its group in each of the three maps, with 0
ZeroGroupsAggregated(e, hs) ==
    /\ \A x \in ZeroGroups(hs, "sector") :
           MapGet(e.sector_concentration, x) = <<[n |-> 0, d |-> 1]>>
    /\ \A x \in ZeroGroups(hs, "region") :
           MapGet(e.region_concentration, x) = <<[n |-> 0, d |-> 1]>>
    /\ \A x \in ZeroGroups(hs, "asset_class") :
           MapGet(e.asset_class_concentration, x) = <<[n |-> 0, d |-> 1]>>

ZeroGroupsNotFlagged(e, hs) ==
    /\ \A x \in ZeroGroups(hs, "sector") : ~Flagged(e, "sector", x)
    /\ \A x \in ZeroGroups(hs, "region") : ~Flagged(e, "geographic", x)
    /\ \A x \in ZeroGroups(hs, "asset_class") : ~Flagged(e, "asset_class", x)

\* C27 as stated: a holding with weight_percent 0 creates or joins its sector,
\* region and asset-class group, contributing 0, and a group made up only of
\* zero-weight holdings never yields a finding.
C27_ZeroWeightNeverFlagged ==
    ConcentrationOK =>
        \A k \in 1..Len(response.data) :
            LET e == response.data[k]
                hs == HoldingsOf(e.portfolio_id)
            IN  ZeroGroupsAggregated(e, hs) /\ ZeroGroupsNotFlagged(e, hs)

\* C27: a holding with weight_percent 0 creates or joins its groups,
\* contributing 0; a group of zero-weight holdings only yields no finding
\* when the sector threshold is not negative, and a 'sector' finding when it
\* is negative.
C27_ZeroWeightFlaggedOnlyBelowZero ==
    ConcentrationOK =>
        \A k \in 1..Len(response.data) :
            LET e == response.data[k]
                hs == HoldingsOf(e.portfolio_id)
            IN  /\ ZeroGroupsAggregated(e, hs)
                /\ SectorThresholdConfigured.n >= 0 => ZeroGroupsNotFlagged(e, hs)
                /\ SectorThresholdConfigured.n < 0 =>
                       /\ \A x \in ZeroGroups(hs, "sector") : Flagged(e, "sector", x)
                       /\ \A x \in ZeroGroups(hs, "region") :
                              ~Flagged(e, "geographic", x)
                       /\ \A x \in ZeroGroups(hs, "asset_class") :
                              ~Flagged(e, "asset_class", x)

\* under the default threshold a portfolio holds one zero-weight position in a
\* sector of its own, next to a flagged sector
C27_Witness ==
    /\ ConcentrationOK
    /\ request.query.threshold = <<>>
    /\ \E k \in 1..Len(response.data) :
           LET e == response.data[k]
               hs == HoldingsOf(e.portfolio_id)
           IN  /\ Len(hs) = 2
               /\ ZeroGroups(hs, "sector") # {}
               /\ Len(e.sector_concentration) = 2
               /\ Len(e.concentration_risks) > 0
               /\ \A x \in ZeroGroups(hs, "sector") : ~Flagged(e, "sector", x)

----------------------------------------------------------------------------
(* GET /risk/var-analysis: data and requests of the bounded model *)

MaxPortfolios == 2

TotalValues == {-1000, 0, 1000}
Var1dValues == {-60, -50, -20, 0, 50}
MarginUtilizations == {Zero, R(1, 4)}

\* a portfolios table of n rows with ids 1..n
PortfolioTables(n) ==
    { [i \in 1..k |-> PortfolioRow(i, t[i][1], t[i][2], t[i][3])] :
        k \in 0..n,
        t \in [1..n -> TotalValues \X Var1dValues \X MarginUtilizations] }

VarQueries ==
    [portfolio_id : {Undefined, Some(1), Some(3)},
     confidence_level : {Undefined, Some(R(99, 100))}]

InitVar ==
    /\ portfolios \in PortfolioTables(MaxPortfolios)
    /\ holdings = SeededHoldings
    /\ request = NoRequest
    /\ response = NoResponse
    /\ dbReads = 0
    /\ inflight = NoInvocations

\* one request to GET /risk/var-analysis
VarAnalysis ==
    /\ response = NoResponse
    /\ \E query \in VarQueries, portfoliosError \in BOOLEAN :
          LET r == VarAnalysisHandler(query, portfoliosError)
          IN  /\ request' = [kind |-> "var", query |-> query,
                             portfoliosError |-> portfoliosError]
              /\ response' \in r.bodies
              /\ dbReads' = r.reads
    /\ UNCHANGED <<portfolios, holdings, inflight>>

NextVar == VarAnalysis \/ Finish

SpecVar == InitVar /\ [][NextVar]_vars

----------------------------------------------------------------------------
(* Properties of GET /risk/var-analysis *)

VarOK == request.kind = "var" /\ response.status = 200

\* the row of the portfolios table with this id
PortfolioWithId(id) == portfolios[CHOOSE i \in 1..Len(portfolios) : portfolios[i].id = id]

Magnitude(i) == IF i < 0 THEN -i ELSE i

\* C6: for every assessed portfolio with total_value > 0, var_percentage is
\* |var_1d| / total_value * 100, and the risk level is 'high' iff that is > 5,
\* 'medium' iff it is > 2 and <= 5, 'low' iff it is <= 2.
C6_RiskLevelByVarPercentage ==
    VarOK =>
        \A k \in 1..Len(response.data) :
            LET a == response.data[k]
                p == PortfolioWithId(a.portfolio_id)
                v == Magnitude(p.var_1d) * 100
                t == p.total_value
            IN  t > 0 =>
                    /\ a.var_percentage.d > 0
                    /\ a.var_percentage.n * t = v * a.var_percentage.d
                    /\ a.risk_level = "high" <=> v > 5 * t
                    /\ a.risk_level = "medium" <=> (v > 2 * t /\ v <= 5 * t)
                    /\ a.risk_level = "low" <=> v <= 2 * t

\* one response assesses a portfolio at exactly 5 percent as 'medium' and one
\* at exactly 2 percent as 'low'
C6_Witness ==
    /\ VarOK
    /\ \E k, l \in 1..Len(response.data) :
           /\ PortfolioWithId(response.data[k].portfolio_id).total_value > 0
           /\ response.data[k].var_percentage = [n |-> 5, d |-> 1]
           /\ response.data[k].risk_level = "medium"
           /\ PortfolioWithId(response.data[l].portfolio_id).total_value > 0
           /\ response.data[l].var_percentage = [n |-> 2, d |-> 1]
           /\ response.data[l].risk_level = "low"

\* C7: an analysis of a portfolio whose total_value is 0 or negative fails: no
\* successful response carries an assessment or result for such a portfolio.
C7_NonPositiveTotalValueRejected ==
    (request.kind \in {"var", "stress"} /\ response.status = 200) =>
        \A k \in 1..Len(response.data) :
            PortfolioWithId(response.data[k].portfolio_id).total_value > 0

\* two rows of the portfolios table that differ only in the sign of var_1d
\* (and in their id)
DifferOnlyInVarSign(p, q) ==
    /\ p.var_1d = 0 - q.var_1d
    /\ p.var_1d # 0
    /\ [p EXCEPT !.id = 0, !.var_1d = 0] = [q EXCEPT !.id = 0, !.var_1d = 0]

\* C17: every assessment reports var_1d = -|input var_1d| and var_5d, var_1m
\* as non-positive values, whatever the sign of the input; two portfolios that
\* differ only in the sign of var_1d get the same assessment.
C17_VarReportedNonPositive ==
    VarOK =>
        /\ \A k \in 1..Len(response.data) :
               LET a == response.data[k]
                   p == PortfolioWithId(a.portfolio_id)
               IN  /\ a.var_1d = [n |-> 0 - Magnitude(p.var_1d), d |-> 1]
                   /\ a.var_5d.coef.d > 0 /\ a.var_5d.coef.n <= 0
                   /\ a.var_1m.coef.d > 0 /\ a.var_1m.coef.n <= 0
                   /\ a.var_5d.radicand > 0 /\ a.var_1m.radicand > 0
        /\ \A k, l \in 1..Len(response.data) :
               DifferOnlyInVarSign(PortfolioWithId(response.data[k].portfolio_id),
                                   PortfolioWithId(response.data[l].portfolio_id))
               => [response.data[k] EXCEPT !.portfolio_id = 0]
                      = [response.data[l] EXCEPT !.portfolio_id = 0]

\* one response assesses a portfolio with a positive var_1d and its twin with
\* the negated var_1d
C17_Witness ==
    /\ VarOK
    /\ \E k, l \in 1..Len(response.data) :
           LET p == PortfolioWithId(response.data[k].portfolio_id)
               q == PortfolioWithId(response.data[l].portfolio_id)
           IN  /\ DifferOnlyInVarSign(p, q)
               /\ p.var_1d > 0
               /\ p.total_value > 0
               /\ response.data[k].var_1d.n < 0
               /\ response.data[l].var_1d.n < 0

\* (coef * sqrt(radicand))^2 = factor * x^2, for a symbolic root and a number x
SquareIs(surd, factor, x) ==
    /\ surd.coef.d > 0 /\ x.d > 0
    /\ surd.coef.n * surd.coef.n * surd.radicand * x.d * x.d
           = factor * x.n * x.n * surd.coef.d * surd.coef.d

\* C18: in every assessment var_5d^2 = 5 * var_1d^2 and var_1m^2 = 22 *
\* var_1d^2, whatever the query asks for (the factors are not configurable).
C18_HorizonScaling ==
    VarOK =>
        \A k \in 1..Len(response.data) :
            LET a == response.data[k]
            IN  /\ SquareIs(a.var_5d, 5, a.var_1d)
                /\ SquareIs(a.var_1m, 22, a.var_1d)

\* a request that sets confidence_level and assesses a portfolio with a
\* nonzero var_1d
C18_Witness ==
    /\ VarOK
    /\ IsDefined(request.query.confidence_level)
    /\ \E k \in 1..Len(response.data) :
           /\ response.data[k].var_1d.n < 0
           /\ response.data[k].var_5d.coef.n < 0
           /\ response.data[k].var_1m.coef.n < 0
           /\ response.data[k].confidence_level = request.query.confidence_level[1]

\* C19: the risk score of every assessment is var_percentage *
\* (margin_utilization + 0.5) with var_percentage = |var_1d| / total_value *
\* 100; with a total value of 0 both are the same non-finite value.
C19_CompositeRiskScore ==
    VarOK =>
        \A k \in 1..Len(response.data) :
            LET a == response.data[k]
                p == PortfolioWithId(a.portfolio_id)
                v == Magnitude(p.var_1d) * 100
                t == p.total_value
                m == p.margin_utilization
                pct == a.var_percentage
                rs == a.risk_score
            IN  /\ t # 0 =>
                       /\ pct.d > 0 /\ rs.d > 0
                       /\ pct.n * t = v * pct.d
                       /\ rs.n * t * 2 * m.d = v * (2 * m.n + m.d) * rs.d
                /\ t = 0 =>
                       /\ pct = [n |-> (IF v > 0 THEN 1 ELSE 0), d |-> 0]
                       /\ rs = pct

\* an assessment with a nonzero margin utilisation and a nonzero score
C19_Witness ==
    /\ VarOK
    /\ \E k \in 1..Len(response.data) :
           LET a == response.data[k]
               p == PortfolioWithId(a.portfolio_id)
           IN  /\ p.total_value > 0
               /\ p.margin_utilization.n > 0
               /\ a.risk_score.d > 0 /\ a.risk_score.n > 0
               /\ a.risk_score # a.var_percentage
               /\ a.var_percentage.n > 0

\* a list of assessments with the confidence level blanked
WithoutConfidence(data) ==
    [k \in 1..Len(data) |-> [data[k] EXCEPT !.confidence_level = Zero]]

\* the lists of assessments, confidence level blanked, a successful call with
\* this query may answer
RankingsWithoutConfidence(query) ==
    { WithoutConfidence(b.data) : b \in VarAnalysisHandler(query, FALSE).bodies }

\* C21: every assessment carries the confidence level of the query (0.95 when
\* the query has none), and a call that differs only in confidence level
\* answers the same assessments in the same order in every other field.
C21_ConfidenceLevelOnlyEchoed ==
    VarOK =>
        /\ \A k \in 1..Len(response.data) :
               response.data[k].confidence_level
                   = (IF request.query.confidence_level = <<>> THEN [n |-> 19, d |-> 20]
                      ELSE request.query.confidence_level[1])
        /\ \A other \in VarQueries :
               (/\ other.portfolio_id = request.query.portfolio_id
                /\ other.confidence_level # request.query.confidence_level)
               => WithoutConfidence(response.data) \in RankingsWithoutConfidence(other)

\* a call with a confidence level of 0.99 that ranks two portfolios with
\* different nonzero scores
C21_Witness ==
    /\ VarOK
    /\ request.query.confidence_level = <<[n |-> 99, d |-> 100]>>
    /\ Len(response.data) = 2
    /\ response.data[1].confidence_level = [n |-> 99, d |-> 100]
    /\ response.data[2].confidence_level = [n |-> 99, d |-> 100]
    /\ response.data[2].risk_score.d > 0 /\ response.data[2].risk_score.n > 0
    /\ Gt(response.data[1].risk_score, response.data[2].risk_score)

----------------------------------------------------------------------------
(* GET /risk/var-analysis: ranking of three portfolios *)

MaxRanked == 3

RankedTotalValues == {0, 1000}
RankedVar1dValues == {-50, -20, 0}

\* a portfolios table of up to MaxRanked rows with ids 1..k, in id order
\* total_value and var_1d of a row: the small values, and a portfolio of
\* 12,500,000 with a var_1d of -187,500
RankedValues ==
    (RankedTotalValues \X RankedVar1dValues) \cup {<<12500000, -187500>>}

RankedTables ==
    { [i \in 1..k |-> PortfolioRow(i, t[i][1], t[i][2], R(1, 4))] :
        k \in 0..MaxRanked,
        t \in [1..MaxRanked -> RankedValues] }

InitVarRanking ==
    /\ portfolios \in RankedTables
    /\ holdings = SeededHoldings
    /\ request = NoRequest
    /\ response = NoResponse
    /\ dbReads = 0
    /\ inflight = NoInvocations

SpecVarRanking == InitVarRanking /\ [][NextVar]_vars

\* the rows a request to GET /risk/var-analysis selects, in query order
Assessed ==
    IF IsDefined(request.query.portfolio_id)
    THEN PortfoliosById(request.query.portfolio_id[1]) ELSE portfolios

\* the position of a portfolio in the query result
InputPosition(id) == CHOOSE i \in 1..Len(Assessed) : Assessed[i].id = id

\* C20: the output has exactly one assessment per input portfolio, no
\* assessment is followed by one with a greater risk score, and assessments
\* with equal risk scores are in input order.
C20_RankedByRiskScoreStable ==
    VarOK =>
        /\ Len(response.data) = Len(Assessed)
        /\ \A i \in 1..Len(Assessed) :
               \E k \in 1..Len(response.data) :
                   response.data[k].portfolio_id = Assessed[i].id
        /\ \A k, l \in 1..Len(response.data) :
               k < l =>
                   /\ ~Gt(response.data[l].risk_score, response.data[k].risk_score)
                   /\ (response.data[k].risk_score = response.data[l].risk_score
                       /\ ~IsNaN(response.data[k].risk_score))
                      => InputPosition(response.data[k].portfolio_id)
                             < InputPosition(response.data[l].portfolio_id)

\* natural numbers beyond the range of the model checker's integers, as their
\* digits in base 10000, least significant first
RECURSIVE Limbs(_)
Limbs(n) == IF n < 10000 THEN <<n>> ELSE <<n % 10000>> \o Limbs(n \div 10000)

RECURSIVE Carry(_, _)
Carry(xs, c) ==
    IF xs = <<>> THEN (IF c = 0 THEN <<>> ELSE Limbs(c))
    ELSE <<(Head(xs) + c) % 10000>> \o Carry(Tail(xs), (Head(xs) + c) \div 10000)

RECURSIVE Convolve(_, _, _, _)
Convolve(a, b, k, i) ==
    IF i > Len(a) THEN 0
    ELSE (IF k + 1 - i \in 1..Len(b) THEN a[i] * b[k + 1 - i] ELSE 0)
         + Convolve(a, b, k, i + 1)

RECURSIVE Trim(_)
Trim(xs) ==
    IF xs # <<>> /\ xs[Len(xs)] = 0 THEN Trim(SubSeq(xs, 1, Len(xs) - 1)) ELSE xs

Product(a, b) ==
    Trim(Carry([k \in 1..(Len(a) + Len(b) - 1) |-> Convolve(a, b, k, 1)], 0))

RECURSIVE LessFrom(_, _, _)
LessFrom(a, b, i) ==
    IF i = 0 THEN FALSE
    ELSE IF a[i] # b[i] THEN a[i] < b[i] ELSE LessFrom(a, b, i - 1)

Less(a, b) ==
    IF Len(a) # Len(b) THEN Len(a) < Len(b) ELSE LessFrom(a, b, Len(a))

Square(n) == Product(Limbs(n), Limbs(n))

\* the magnitude of coef * sqrt(radicand), for a whole coef, rounds to the
\* whole number v: (2v - 1)^2 <= 4 * radicand * coef^2 < (2v + 1)^2
RoundsTo(surd, v) ==
    LET x == Product(Limbs(4 * surd.radicand), Square(Magnitude(surd.coef.n)))
    IN  /\ surd.coef.d = 1
        /\ ~Less(x, Square(2 * v - 1))
        /\ Less(x, Square(2 * v + 1))

\* the assessments of portfolios with total_value 12,500,000 and var_1d -187,500
ExampleAssessments ==
    { k \in 1..Len(response.data) :
        LET p == PortfolioWithId(response.data[k].portfolio_id)
        IN  p.total_value = 12500000 /\ p.var_1d = -187500 }

\* C25 as stated: the portfolio of 12,500,000 with var_1d -187,500 is assessed
\* at 1.5 percent, 'low', with var_5d about -419,453 and var_1m about -879,773.
C25_ExampleAsStated ==
    VarOK =>
        \A k \in ExampleAssessments :
            LET a == response.data[k]
            IN  /\ a.var_percentage = [n |-> 3, d |-> 2]
                /\ a.risk_level = "low"
                /\ a.var_5d.coef.n < 0 /\ RoundsTo(a.var_5d, 419453)
                /\ a.var_1m.coef.n < 0 /\ RoundsTo(a.var_1m, 879773)

\* C25: the portfolio of 12,500,000 with var_1d -187,500 is assessed at 1.5
\* percent, 'low', with var_5d = -187,500 * sqrt(5), which rounds to -419,263,
\* and var_1m = -187,500 * sqrt(22), which rounds to -879,453.
C25_ExampleAssessment ==
    VarOK =>
        \A k \in ExampleAssessments :
            LET a == response.data[k]
            IN  /\ a.var_percentage = [n |-> 3, d |-> 2]
                /\ a.risk_level = "low"
                /\ a.var_1d = [n |-> -187500, d |-> 1]
                /\ a.var_5d.coef.n < 0 /\ RoundsTo(a.var_5d, 419263)
                /\ a.var_1m.coef.n < 0 /\ RoundsTo(a.var_1m, 879453)

C25_Witness ==
    /\ VarOK
    /\ \E k \in ExampleAssessments :
           /\ response.data[k].risk_level = "low"
           /\ response.data[k].var_5d.coef = [n |-> -187500, d |-> 1]

----------------------------------------------------------------------------
(* POST /risk/stress-test: data and requests of the bounded model *)

MaxScenarios == 2

HoldingValues == {500, 1000}
StressTotalValues == {0, 1000}

StressSecurities ==
    { [symbol |-> "AAPL", sector |-> "Technology", region |-> "US",
       asset_class |-> "Equity"],
      [symbol |-> "BUND", sector |-> "Government", region |-> "Europe",
       asset_class |-> "Fixed Income"] }

\* the equity position comes in two sizes, the bond position in one
StressHoldingRows ==
    { h \in { HoldingRow(1, sec, 50, v) : sec \in StressSecurities, v \in HoldingValues } :
          h.sector = "Technology" \/ h.value = 1000 }

Scenario(name, marketShock, sectorShocks) ==
    [name |-> name, market_shock |-> marketShock, sector_shocks |-> sectorShocks]

TechShock(x) == Some([sec \in {"Technology"} |-> x])

Scenarios ==
    { Scenario("default", Undefined, Undefined),
      Scenario("flat", Some(Zero), Undefined),
      Scenario("crash", Some(R(-1, 5)), Undefined),
      Scenario("rally", Some(R(1, 10)), Undefined),
      Scenario("tech", Undefined, TechShock(R(-3, 10))),
      Scenario("spared", Some(R(-1, 5)), TechShock(Zero)) }

StressBodies ==
    [portfolio_ids : {Undefined, Some(<<1>>)},
     scenarios : {Undefined} \cup { Some(ss) : ss \in SeqsUpTo(Scenarios, MaxScenarios) }]

\* the portfolios whose holdings a request fetches when its portfolio query
\* succeeds
StressFetched(body) ==
    IF NoScenarios(body) THEN {}
    ELSE { StressSelection(body)[i].id : i \in 1..Len(StressSelection(body)) }

InitStress ==
    /\ portfolios \in { <<PortfolioRow(1, t, -15, R(1, 2)),
                          PortfolioRow(2, 1000, -15, R(1, 2))>> :
                          t \in StressTotalValues }
    /\ holdings \in { hs \o SeededHoldings :
                        hs \in SeqsUpTo(StressHoldingRows, MaxHoldings) }
    /\ request = NoRequest
    /\ response = NoResponse
    /\ dbReads = 0
    /\ inflight = NoInvocations

\* one request to POST /risk/stress-test
StressTest ==
    /\ response = NoResponse
    /\ \E body \in StressBodies, portfoliosError \in BOOLEAN :
       \E holdingsError \in
              SUBSET (IF portfoliosError THEN {} ELSE StressFetched(body)) :
          LET r == StressTestHandler(body, portfoliosError, holdingsError)
          IN  /\ request' = [kind |-> "stress", body |-> body,
                             portfoliosError |-> portfoliosError,
                             holdingsError |-> holdingsError]
              /\ response' = r.body
              /\ dbReads' = r.reads
    /\ UNCHANGED <<portfolios, holdings, inflight>>

NextStress == StressTest \/ Finish

SpecStress == InitStress /\ [][NextStress]_vars

----------------------------------------------------------------------------
(* Properties of POST /risk/stress-test *)

StressOK == request.kind = "stress" /\ response.status = 200

\* C8: a stress-test request whose scenario list is absent or empty is answered
\* with the 400 "At least one stress test scenario is required" error, which
\* carries no data, and no database query has been issued for it.
C8_EmptyScenariosRejectedFirst ==
    (request.kind = "stress"
     /\ (request.body.scenarios = <<>> \/ request.body.scenarios = << <<>> >>))
    => /\ response = [status |-> 400, success |-> FALSE,
                      message |-> "At least one stress test scenario is required"]
       /\ dbReads = 0

\* an empty scenario list is rejected without a query even when the database
\* would have failed the portfolio query
C8_Witness ==
    /\ request.kind = "stress"
    /\ request.body.scenarios = << <<>> >>
    /\ request.portfoliosError
    /\ response.status = 400
    /\ dbReads = 0

\* C9 (its first half): whenever the override map of a scenario has an entry
\* for a holding's sector, whatever the entry's value, the shock applied to the
\* holding is that entry.
C9_SectorOverrideTakesPrecedence ==
    StressOK =>
        \A k \in 1..Len(response.data) :
            LET hs == HoldingsOf(response.data[k].portfolio_id)
            IN  \A i \in 1..Len(request.body.scenarios[1]) :
                \A j \in 1..Len(hs) :
                    LET sc == request.body.scenarios[1][i]
                    IN  (sc.sector_shocks # <<>>
                         /\ hs[j].sector \in DOMAIN sc.sector_shocks[1])
                        => response.data[k].scenarios[i].holding_impacts[j].shock
                               = sc.sector_shocks[1][hs[j].sector]

\* C10: when a scenario's market shock is explicitly 0 and its override map has
\* no entry for a holding's sector, the holding's shock and impact are 0; when
\* this is so for all holdings of a portfolio, the stressed value equals the
\* portfolio's total value.
C10_ZeroMarketShockKept ==
    StressOK =>
        \A k \in 1..Len(response.data) :
            LET hs == HoldingsOf(response.data[k].portfolio_id)
            IN  \A i \in 1..Len(request.body.scenarios[1]) :
                    LET sc == request.body.scenarios[1][i]
                        res == response.data[k].scenarios[i]
                        unmatched(j) ==
                            sc.sector_shocks = <<>>
                            \/ hs[j].sector \notin DOMAIN sc.sector_shocks[1]
                    IN  sc.market_shock = << [n |-> 0, d |-> 1] >> =>
                            /\ \A j \in 1..Len(hs) :
                                   unmatched(j) =>
                                       /\ res.holding_impacts[j].shock.n = 0
                                       /\ res.holding_impacts[j].impact.n = 0
                            /\ (\A j \in 1..Len(hs) : unmatched(j))
                               => res.stressed_value = response.data[k].current_value

\* the sum of the listed impacts as a fraction <<numerator, denominator>>
RECURSIVE SumImpacts(_)
SumImpacts(impacts) ==
    IF impacts = <<>> THEN <<0, 1>>
    ELSE LET rest == SumImpacts(Tail(impacts))
             x == Head(impacts).impact
         IN  <<rest[1] * x.d + x.n * rest[2], rest[2] * x.d>>

\* every scenario result of every portfolio in a successful stress response
StressResults ==
    { <<k, i>> : k \in 1..Len(response.data),
                 i \in 1..Len(request.body.scenarios[1]) }

\* C11: in every scenario result, each listed holding impact is the holding's
\* value times the listed shock, and the stressed value is the portfolio's
\* unshocked total value plus the sum of the listed impacts.
C11_ImpactsAddedOnceToTotal ==
    StressOK =>
        \A r \in StressResults :
            LET p == PortfolioWithId(response.data[r[1]].portfolio_id)
                hs == HoldingsOf(p.id)
                res == response.data[r[1]].scenarios[r[2]]
                sum == SumImpacts(res.holding_impacts)
            IN  /\ Len(res.holding_impacts) = Len(hs)
                /\ \A j \in 1..Len(hs) :
                       LET h == res.holding_impacts[j]
                       IN  /\ h.impact.d > 0 /\ h.shock.d > 0
                           /\ h.impact.n * h.shock.d
                                  = hs[j].value * h.shock.n * h.impact.d
                /\ res.stressed_value.d > 0
                /\ res.stressed_value.n * sum[2]
                       = (p.total_value * sum[2] + sum[1]) * res.stressed_value.d

\* a portfolio with a positive total value and two holdings that both lose
\* value under one scenario
C11_Witness ==
    /\ StressOK
    /\ \E r \in StressResults :
           LET p == PortfolioWithId(response.data[r[1]].portfolio_id)
               res == response.data[r[1]].scenarios[r[2]]
           IN  /\ p.total_value > 0
               /\ Len(res.holding_impacts) = 2
               /\ \A j \in 1..2 : res.holding_impacts[j].impact.n < 0
               /\ res.stressed_value.n < p.total_value * res.stressed_value.d

\* C12: in every scenario result, total impact is the total value minus the
\* stressed value, which is the negated sum of the listed impacts, and impact
\* percentage is total impact / total value * 100 (with a total value of 0 the
\* division gives Infinity, -Infinity or NaN).
C12_TotalImpactAndPercentage ==
    StressOK =>
        \A r \in StressResults :
            LET p == PortfolioWithId(response.data[r[1]].portfolio_id)
                res == response.data[r[1]].scenarios[r[2]]
                sum == SumImpacts(res.holding_impacts)
                ti == res.total_impact
                sv == res.stressed_value
                pct == res.impact_percentage
            IN  /\ ti.d > 0 /\ sv.d > 0
                /\ ti.n * sv.d = (p.total_value * sv.d - sv.n) * ti.d
                /\ ti.n * sum[2] = (0 - sum[1]) * ti.d
                /\ p.total_value # 0 =>
                       /\ pct.d > 0
                       /\ pct.n * p.total_value * ti.d = ti.n * 100 * pct.d
                /\ p.total_value = 0 =>
                       /\ pct.d = 0
                       /\ pct.n = (IF ti.n > 0 THEN 1 ELSE IF ti.n < 0 THEN -1 ELSE 0)

\* a loss that is not a whole percentage of the total value: total impact and
\* impact percentage are both positive and differ
C12_Witness ==
    /\ StressOK
    /\ \E r \in StressResults :
           LET p == PortfolioWithId(response.data[r[1]].portfolio_id)
               res == response.data[r[1]].scenarios[r[2]]
           IN  /\ p.total_value > 0
               /\ Len(res.holding_impacts) = 2
               /\ res.total_impact.n > 0
               /\ res.impact_percentage.n > 0
               /\ res.stressed_value # res.total_impact
               /\ res.impact_percentage
                      \notin {[n |-> 10, d |-> 1], [n |-> 20, d |-> 1]}

\* x > k for a number x of a response and an integer k
Exceeds(x, k) == (x.d > 0 /\ x.n > k * x.d) \/ (x.d = 0 /\ x.n > 0)

\* C13: a scenario result is 'high' iff its impact percentage is > 20,
\* 'medium' iff it is > 10 and <= 20, and 'low' otherwise; exactly 10 is 'low'
\* and exactly 20 is 'medium'.
C13_StressSeverityBreakpoints ==
    StressOK =>
        \A r \in StressResults :
            LET res == response.data[r[1]].scenarios[r[2]]
                pct == res.impact_percentage
            IN  /\ res.risk_level = "high" <=> Exceeds(pct, 20)
                /\ res.risk_level = "medium"
                       <=> (Exceeds(pct, 10) /\ ~Exceeds(pct, 20))
                /\ res.risk_level = "low" <=> ~Exceeds(pct, 10)

\* one portfolio has a result at exactly 10 percent ('low'), one at exactly 20
\* percent ('medium'), and some result is 'high'
C13_Witness ==
    /\ StressOK
    /\ \E r, q, t \in StressResults :
           /\ response.data[r[1]].scenarios[r[2]].impact_percentage = [n |-> 10, d |-> 1]
           /\ response.data[r[1]].scenarios[r[2]].risk_level = "low"
           /\ response.data[q[1]].scenarios[q[2]].impact_percentage = [n |-> 20, d |-> 1]
           /\ response.data[q[1]].scenarios[q[2]].risk_level = "medium"
           /\ response.data[t[1]].scenarios[t[2]].risk_level = "high"

\* C14: for a portfolio with total_value > 0, a scenario whose listed impacts
\* sum to a net gain (>= 0) has an impact percentage <= 0 and is classified
\* 'low', however large the gain.
C14_GainsAlwaysLow ==
    StressOK =>
        \A r \in StressResults :
            LET p == PortfolioWithId(response.data[r[1]].portfolio_id)
                res == response.data[r[1]].scenarios[r[2]]
                sum == SumImpacts(res.holding_impacts)
            IN  (p.total_value > 0 /\ sum[1] >= 0) =>
                    /\ res.impact_percentage.d > 0
                    /\ res.impact_percentage.n <= 0
                    /\ res.risk_level = "low"

\* a gain of 20 percent of the total value is 'low'
C14_Witness ==
    /\ StressOK
    /\ \E r \in StressResults :
           LET p == PortfolioWithId(response.data[r[1]].portfolio_id)
               res == response.data[r[1]].scenarios[r[2]]
           IN  /\ p.total_value > 0
               /\ res.impact_percentage = [n |-> -20, d |-> 1]
               /\ res.risk_level = "low"

\* C15: the result of a scenario does not depend on the scenarios around it:
\* it is the result the same scenario gets alone in the list, its stressed
\* value and total impact add up to the unshocked total value, and every
\* breakdown line starts from the unshocked holding value.
C15_ScenariosIndependent ==
    StressOK =>
        \A r \in StressResults :
            LET p == PortfolioWithId(response.data[r[1]].portfolio_id)
                hs == HoldingsOf(p.id)
                scenario == request.body.scenarios[1][r[2]]
                res == response.data[r[1]].scenarios[r[2]]
                alone == StressPortfolio(p, hs, <<scenario>>).scenarios[1]
            IN  /\ res = alone
                /\ Add(res.stressed_value, res.total_impact) = N(p.total_value)
                /\ response.data[r[1]].current_value = N(p.total_value)
                /\ \A j \in 1..Len(res.holding_impacts) :
                       LET h == res.holding_impacts[j]
                       IN  /\ h.current_value = N(hs[j].value)
                           /\ h.stressed_value = Add(N(hs[j].value), h.impact)

\* two scenarios that both move the portfolio, the second with another shock
C15_Witness ==
    /\ StressOK
    /\ Len(request.body.scenarios[1]) = 2
    /\ request.body.scenarios[1][1] # request.body.scenarios[1][2]
    /\ \E k \in 1..Len(response.data) :
           /\ response.data[k].scenarios[1].total_impact.n > 0
           /\ response.data[k].scenarios[2].total_impact.n > 0
           /\ response.data[k].scenarios[1].total_impact
                  # response.data[k].scenarios[2].total_impact

\* C16: every portfolio of the output has exactly one result per input
\* scenario, and the i-th result carries the name of the i-th input scenario.
C16_OneResultPerScenarioInOrder ==
    StressOK =>
        \A k \in 1..Len(response.data) :
            /\ Len(response.data[k].scenarios) = Len(request.body.scenarios[1])
            /\ \A i \in 1..Len(request.body.scenarios[1]) :
                   response.data[k].scenarios[i].name
                       = request.body.scenarios[1][i].name

\* two scenarios with different names, and a portfolio in the output
C16_Witness ==
    /\ StressOK
    /\ Len(request.body.scenarios[1]) = 2
    /\ request.body.scenarios[1][1].name # request.body.scenarios[1][2].name
    /\ Len(response.data) > 0
    /\ response.data[1].scenarios[1].name = request.body.scenarios[1][1].name
    /\ response.data[1].scenarios[2].name = request.body.scenarios[1][2].name

\* the scenario gives no market shock and no sector override for this sector
Unspecified(scenario, sector) ==
    /\ scenario.market_shock = <<>>
    /\ \/ scenario.sector_shocks = <<>>
       \/ sector \notin DOMAIN scenario.sector_shocks[1]

\* C29: a holding for which the scenario gives neither a market shock nor a
\* sector override is shocked by -0.10: its impact is -0.10 times its value.
C29_DefaultShockTenPercent ==
    StressOK =>
        \A r \in StressResults :
            LET hs == HoldingsOf(response.data[r[1]].portfolio_id)
                scenario == request.body.scenarios[1][r[2]]
                res == response.data[r[1]].scenarios[r[2]]
            IN  \A j \in 1..Len(hs) :
                    Unspecified(scenario, hs[j].sector) =>
                        /\ res.holding_impacts[j].shock = [n |-> -1, d |-> 10]
                        /\ res.holding_impacts[j].impact.d > 0
                        /\ res.holding_impacts[j].impact.n * 10
                               = (0 - hs[j].value) * res.holding_impacts[j].impact.d

\* a scenario that only overrides Technology: the bond next to the equity
\* position gets the default shock, the equity position the override
C29_Witness ==
    /\ StressOK
    /\ \E r \in StressResults :
           LET hs == HoldingsOf(response.data[r[1]].portfolio_id)
               scenario == request.body.scenarios[1][r[2]]
               res == response.data[r[1]].scenarios[r[2]]
           IN  /\ scenario.sector_shocks # <<>>
               /\ \E j, l \in 1..Len(hs) :
                      /\ Unspecified(scenario, hs[j].sector)
                      /\ res.holding_impacts[j].impact = [n |-> -100, d |-> 1]
                      /\ ~Unspecified(scenario, hs[l].sector)
                      /\ res.holding_impacts[l].shock = [n |-> -3, d |-> 10]

----------------------------------------------------------------------------
(* Invocations in flight: the handlers are async functions, and the event   *)
(* loop runs the code between two awaits of an invocation without           *)
(* interruption; invocations interleave at their awaits                     *)

Invocations == {1, 2}

\* an invocation that has not been called yet
Idle ==
    [pc |-> "idle", before |-> "none", interleaved |-> FALSE,
     request |-> NoRequest, todo |-> <<>>, results |-> <<>>,
     response |-> NoResponse]

\* const concentrationAnalysis = [] / const stressTestResults = []: declared
\* inside the handler, so every invocation has an array of its own
ResultsOwnerShared(i) == CHOOSE j \in Invocations : \A k \in Invocations : j <= k
ResultsOwner(i) == i

\* ... and the array starts empty, whatever an earlier call left behind
StaleAccumulator(previous) == previous
FreshAccumulator(previous) == <<>>

Results(i) == inflight[ResultsOwner(i)].results

\* the next state of inflight: the fields of invocation i and its results array
Step(i, slot, results) ==
    [j \in Invocations |->
        LET base == IF j = i THEN slot ELSE inflight[j]
        IN  IF j = ResultsOwner(i) THEN [base EXCEPT !.results = results] ELSE base]

\* res.json({ success: true, data }) of the two looping handlers
Success(kind, data) ==
    IF kind = "stress"
    THEN [status |-> 200, success |-> TRUE,
          message |-> "Stress test completed successfully", data |-> data]
    ELSE [status |-> 200, success |-> TRUE, data |-> data]

Failure(status, message) ==
    [status |-> status, success |-> FALSE, message |-> message]

\* invocation i takes a step while other invocations are suspended at an await
MarkInterleaved(i, next) ==
    [j \in Invocations |->
        IF j # i /\ inflight[j].pc \in {"portfolios", "holdings"}
        THEN [next[j] EXCEPT !.interleaved = TRUE] ELSE next[j]]

\* the handler is called: it runs up to its first await (the portfolios
\* query), or returns 400 before any await
Begin(i, r) ==
    /\ inflight[i].pc \in {"idle", "done"}
    /\ LET called == [inflight[i] EXCEPT !.before = inflight[i].request.kind,
                                         !.interleaved = FALSE,
                                         !.request = r, !.todo = <<>>]
       IN  inflight' =
               MarkInterleaved(i,
                   IF r.kind = "stress" /\ NoScenarios(r.body)
                   THEN [inflight EXCEPT ![i] =
                            [called EXCEPT !.pc = "done",
                                           !.response = Failure(400,
                                               "At least one stress test scenario is required")]]
                   ELSE [inflight EXCEPT ![i] =
                            [called EXCEPT !.pc = "portfolios",
                                           !.response = NoResponse]])
    /\ UNCHANGED <<portfolios, holdings, request, response, dbReads>>

\* the portfolios the query of the invocation selects
Selected(r) ==
    IF r.kind = "stress" THEN StressSelection(r.body)
    ELSE IF IsDefined(r.query.portfolio_id)
         THEN PortfoliosById(r.query.portfolio_id[1]) ELSE portfolios

\* the failure the handler answers after the portfolios query, if any
PortfoliosFailure(r) ==
    IF r.kind = "concentration" /\ IsDefined(r.query.portfolio_id)
       /\ (r.portfoliosError \/ Len(Selected(r)) # 1)
    THEN <<Failure(404, "Portfolio not found")>>
    ELSE IF r.kind = "concentration" /\ r.portfoliosError
    THEN <<Failure(500, "Failed to perform concentration analysis")>>
    ELSE IF r.kind = "stress" /\ r.portfoliosError
    THEN <<Failure(500, "Failed to perform stress test")>>
    ELSE <<>>

\* the portfolios query of invocation i resolves: the handler answers a
\* failure, or creates its results array and runs to the first holdings query
\* (to res.json when there is no portfolio); the VaR handler has no other
\* await and runs to its end
PortfoliosFetched(i) ==
    /\ inflight[i].pc = "portfolios"
    /\ LET r == inflight[i].request
           slot == inflight[i]
           fresh == FreshAccumulator(Results(i))
       IN  IF r.kind = "var"
           THEN \E body \in VarAnalysisHandler(r.query, r.portfoliosError).bodies :
                    inflight' = MarkInterleaved(i,
                                    [inflight EXCEPT ![i].pc = "done",
                                                     ![i].response = body])
           ELSE inflight' =
                    MarkInterleaved(i,
                        IF PortfoliosFailure(r) # <<>>
                        THEN [inflight EXCEPT ![i].pc = "done",
                                              ![i].response = PortfoliosFailure(r)[1]]
                        ELSE IF Selected(r) = <<>>
                        THEN Step(i, [slot EXCEPT !.pc = "done",
                                                  !.response = Success(r.kind, fresh)],
                                  fresh)
                        ELSE Step(i, [slot EXCEPT !.pc = "holdings",
                                                  !.todo = Selected(r)],
                                  fresh))
    /\ UNCHANGED <<portfolios, holdings, request, response, dbReads>>

\* the body of the loop for one portfolio, after its holdings query
Analyze(r, portfolio) ==
    IF r.kind = "stress"
    THEN StressPortfolio(portfolio, HoldingsOf(portfolio.id), r.body.scenarios[1])
    ELSE AnalyzeConcentration(portfolio, HoldingsOf(portfolio.id), ThresholdOf(r.query))

\* the holdings query for the next portfolio of invocation i resolves: the
\* handler skips the portfolio on an error, else pushes its analysis, then
\* awaits the next holdings query or calls res.json
HoldingsFetched(i) ==
    /\ inflight[i].pc = "holdings"
    /\ LET r == inflight[i].request
           slot == inflight[i]
           portfolio == Head(slot.todo)
           results == IF portfolio.id \in r.holdingsError THEN Results(i)
                      ELSE Append(Results(i), Analyze(r, portfolio))
           rest == Tail(slot.todo)
       IN  inflight' =
               MarkInterleaved(i,
                   IF rest = <<>>
                   THEN Step(i, [slot EXCEPT !.pc = "done", !.todo = rest,
                                             !.response = Success(r.kind, results)],
                             results)
                   ELSE Step(i, [slot EXCEPT !.todo = rest], results))
    /\ UNCHANGED <<portfolios, holdings, request, response, dbReads>>

InFlightPortfolios ==
    << PortfolioRow(1, 1000, -20, R(1, 4)), PortfolioRow(2, 1000, -50, Zero) >>

Security(symbol) == CHOOSE sec \in Securities : sec.symbol = symbol

\* portfolio 1 is split evenly or concentrated; portfolio 2 is the seeded one
InFlightHoldings ==
    { <<HoldingRow(1, Security("AAPL"), 50, 500),
        HoldingRow(1, Security("BUND"), 50, 500)>> \o SeededHoldings,
      <<HoldingRow(1, Security("AAPL"), 85, 1000)>> \o SeededHoldings }

ConcentrationCall(portfolioId, holdingsError) ==
    [kind |-> "concentration",
     query |-> [portfolio_id |-> portfolioId, threshold |-> Undefined,
                geographic_threshold |-> Undefined,
                asset_class_threshold |-> Undefined],
     portfoliosError |-> FALSE, holdingsError |-> holdingsError]

StressCall(portfolioIds, scenarios, holdingsError) ==
    [kind |-> "stress",
     body |-> [portfolio_ids |-> portfolioIds, scenarios |-> scenarios],
     portfoliosError |-> FALSE, holdingsError |-> holdingsError]

VarCall ==
    [kind |-> "var",
     query |-> [portfolio_id |-> Undefined, confidence_level |-> Undefined],
     portfoliosError |-> FALSE]

Crash == Scenario("crash", Some(R(-1, 5)), Undefined)
Rally == Scenario("rally", Some(R(1, 10)), Undefined)

InFlightCalls ==
    { ConcentrationCall(Undefined, {}),
      ConcentrationCall(Some(1), {}), ConcentrationCall(Some(2), {}),
      StressCall(Undefined, Undefined, {}),
      StressCall(Some(<<1>>), Some(<<Crash>>), {}),
      StressCall(Some(<<2>>), Some(<<Crash, Rally>>), {}),
      VarCall }

InitInFlight ==
    /\ portfolios = InFlightPortfolios
    /\ holdings \in InFlightHoldings
    /\ request = NoRequest
    /\ response = NoResponse
    /\ dbReads = 0
    /\ inflight = [i \in Invocations |-> Idle]

NextInFlight ==
    \E i \in Invocations :
        \/ \E r \in InFlightCalls : Begin(i, r)
        \/ PortfoliosFetched(i)
        \/ HoldingsFetched(i)

SpecInFlight == InitInFlight /\ [][NextInFlight]_vars

----------------------------------------------------------------------------
(* Properties of invocations in flight *)

\* the response the handler gives to this call when no other invocation runs
Alone(r) ==
    IF r.kind = "stress"
    THEN {StressTestHandler(r.body, r.portfoliosError, r.holdingsError).body}
    ELSE IF r.kind = "concentration"
    THEN {ConcentrationHandler(r.query, r.portfoliosError, r.holdingsError).body}
    ELSE VarAnalysisHandler(r.query, r.portfoliosError).bodies

Answered(i) == inflight # NoInvocations /\ inflight[i].pc = "done"

\* C22: two calls with the same input against the same portfolios and
\* holdings get the same response, whatever the invocations served before.
C22_SameCallSameResult ==
    inflight # NoInvocations =>
        \A i, j \in Invocations :
            (Answered(i) /\ Answered(j) /\ inflight[i].request = inflight[j].request)
            => inflight[i].response = inflight[j].response

\* the same successful analysis answered twice, the second time after a call
\* to another route
C22_Witness ==
    /\ inflight # NoInvocations
    /\ \E i, j \in Invocations :
           /\ i # j /\ Answered(i) /\ Answered(j)
           /\ inflight[i].request = inflight[j].request
           /\ inflight[i].request.kind \in {"concentration", "stress"}
           /\ inflight[j].before \notin {"none", inflight[j].request.kind}
           /\ inflight[i].response.status = 200
           /\ Len(inflight[i].response.data) > 0
           /\ inflight[j].response = inflight[i].response

\* s is an initial segment of t
IsPrefix(s, t) == Len(s) <= Len(t) /\ s = SubSeq(t, 1, Len(s))

\* C23: under every interleaving of two invocations, each concentration
\* analysis and stress test answers exactly what it answers when run alone,
\* and in the middle of its loop has accumulated only its own results.
C23_ConcurrentAnalysesDoNotInterfere ==
    inflight # NoInvocations =>
        \A i \in Invocations :
            LET r == inflight[i].request
            IN  r.kind \in {"concentration", "stress"} =>
                    /\ inflight[i].pc = "done" => inflight[i].response \in Alone(r)
                    /\ inflight[i].pc = "holdings" =>
                           \A alone \in Alone(r) :
                               /\ alone.status = 200
                               /\ IsPrefix(inflight[i].results, alone.data)

\* two analyses of different portfolios, each suspended while the other ran,
\* have both answered
C23_Witness ==
    /\ inflight # NoInvocations
    /\ \E i, j \in Invocations :
           /\ Answered(i) /\ Answered(j)
           /\ inflight[i].interleaved /\ inflight[j].interleaved
           /\ inflight[i].request.kind = "concentration"
           /\ inflight[j].request.kind = "stress"
           /\ inflight[i].response.status = 200
           /\ inflight[j].response.status = 200
           /\ Len(inflight[i].response.data) = 1
           /\ Len(inflight[j].response.data) = 1
           /\ inflight[i].response.data[1].portfolio_id
                  # inflight[j].response.data[1].portfolio_id

----------------------------------------------------------------------------
(* The three routes together, over every database of the bounded model *)

Init == InitConcentration \/ InitVar \/ InitStress

Next == Concentration \/ VarAnalysis \/ StressTest \/ Finish

Spec == Init /\ [][Next]_vars

\* the three routes on the databases of the stress-test model
SpecRiskRoutes == InitStress /\ [][Next]_vars

Responded == response # NoResponse

\* C26: a response that signals failure carries no analysis data, and a
\* response that carries analysis data signals success.
C26_NoDataWithFailure ==
    Responded =>
        /\ response.success <=> response.status = 200
        /\ ~response.success => "data" \notin DOMAIN response
        /\ "data" \in DOMAIN response => response.success
        /\ response.success => "data" \in DOMAIN response

\* a stress test whose portfolios query fails answers 500 without data
C26_Witness ==
    /\ Responded
    /\ request.kind = "stress"
    /\ request.portfoliosError
    /\ response.status = 500
    /\ ~response.success
    /\ DOMAIN response = {"status", "success", "message"}

\* the ids of the portfolios a request selects, in query order
SelectedIds ==
    LET ids == IF request.kind = "stress" THEN StressFetched(request.body)
               ELSE Fetched(request.query)
        rows == SelectSeq(portfolios, LAMBDA p : p.id \in ids)
    IN  [i \in 1..Len(rows) |-> rows[i].id]

\* what the request is answered when every holdings query succeeds
WithoutHoldingsFailure ==
    IF request.kind = "stress"
    THEN StressTestHandler(request.body, FALSE, {}).body
    ELSE ConcentrationHandler(request.query, FALSE, {}).body

\* C28: when the holdings query fails for some of the selected portfolios of a
\* concentration analysis or stress test, the response still reports success,
\* the failed portfolios have no entry at all, and the other portfolios have
\* their full entries, in query order.
C28_FailedHoldingsFetchOmitsPortfolio ==
    (request.kind \in {"concentration", "stress"} /\ request.holdingsError # {}) =>
        /\ response.status = 200
        /\ response.success
        /\ [k \in 1..Len(response.data) |-> response.data[k].portfolio_id]
               = SelectSeq(SelectedIds, LAMBDA id : id \notin request.holdingsError)
        /\ response.data
               = SelectSeq(WithoutHoldingsFailure.data,
                           LAMBDA e : e.portfolio_id \notin request.holdingsError)

\* a stress test over two portfolios: the holdings query of the first fails,
\* the second is stressed under every scenario
C28_Witness ==
    /\ request.kind = "stress"
    /\ request.holdingsError = {1}
    /\ SelectedIds = <<1, 2>>
    /\ response.status = 200
    /\ Len(response.data) = 1
    /\ response.data[1].portfolio_id = 2
    /\ Len(response.data[1].scenarios) = 2
    /\ response.data[1].scenarios[1].total_impact.n > 0

====
